---- MODULE Spec2Model ----
(***************************************************************************)
(* Browse ledger of asmcos/eventstore: BrowseLogsService                   *)
(* (src/src/db/browselogs.js).  The MongoDB collection `browselogs` is the *)
(* sequence `records` in insertion order; the server clock is `now`, in    *)
(* milliseconds.                                                           *)
(***************************************************************************)
EXTENDS Integers, Sequences, FiniteSets, TLC

VARIABLES now, records, last, pend, server

vars == <<now, records, last, pend, server>>

(* ---------------- bounds of the model ---------------- *)
MaxRecords == 2
MaxDays == 1
MaxMs == 1

(* ---------------- program constants ---------------- *)
duplicateInterval == 24 * 60 * 60 * 1000
SkewTolerance == 5 * 60 * 1000
adminPubkey == "admin"
ReportCode == 700
ReadCode == 703
CountCode == 704
MaskedIp == "******"

(* ---------------- JavaScript values ---------------- *)
Undefined == "undefined"
Null == "null"
\* created_at: 0 stands for an absent (or any falsy) value, InvalidDate for a
\* value `new Date()` cannot parse, whose getTime() is NaN.
InvalidDate == -1
NaN == -1

Truthy(x) == x \notin {Undefined, Null, ""}
OrElse(x, y) == IF Truthy(x) THEN x ELSE y
Abs(x) == IF x < 0 THEN -x ELSE x

\* The clock starts late enough that every timestamp of the model is positive.
StartTime == duplicateInterval + SkewTolerance + 2
Days(t) == (t - StartTime) \div duplicateInterval
Ms(t) == (t - StartTime) % duplicateInterval
InBounds(t) == Days(t) <= MaxDays /\ Ms(t) <= MaxMs

(* ---------------- inputs ---------------- *)
Users == {"U1", "U2"}
AnonIds == {"a1", "a2"}
Targets == {"T1", "T2"}

\* Who reports: a logged-in user on a client, a client alone, or nobody
Viewers ==
  {[user |-> "U1", anonymousId |-> "a1"],
   [user |-> "U2", anonymousId |-> "a2"],
   [user |-> Undefined, anonymousId |-> "a1"],
   [user |-> Undefined, anonymousId |-> "a2"],
   [user |-> Undefined, anonymousId |-> Undefined]}

\* Well-formed reports, for the deduplication
ReportEvents ==
  [code : {ReportCode},
   created_at : {0},
   viewer : Viewers,
   targetId : Targets,
   ipAddress : {Undefined}]

\* Reports of one client for one target, logged in or not, for the race
RaceEvents ==
  {ev \in ReportEvents : ev.viewer.anonymousId = "a1" /\ ev.targetId = "T1"}

\* Well-formed reports for the reads: two users and two anonymous clients,
\* with and without an IP address
View(user, anonymousId, targetId, ipAddress) ==
  [code |-> ReportCode,
   created_at |-> 0,
   viewer |-> [user |-> user, anonymousId |-> anonymousId],
   targetId |-> targetId,
   ipAddress |-> ipAddress]
ViewEvents ==
  {View(Undefined, "a1", "T1", "10.0.0.1"),
   View(Undefined, "a2", "T2", Undefined),
   View("U1", "a1", "T1", Undefined),
   View("U1", "a1", "T2", "10.0.0.1"),
   View("U2", "a2", "T1", "10.0.0.2")}

\* Reads: every caller with every owner, target and time filter on the
\* default page, and two callers with every page
Callers == Users \cup {adminPubkey}
NoTime == [startTime |-> 0, endTime |-> 0]
TimeFilters(t) == {NoTime, [startTime |-> StartTime + 1, endTime |-> t]}
FilterEvents(t) ==
  [code : {ReadCode},
   user : Callers,
   anonymousId : {Undefined, "a1"},
   userFilter : {Undefined, "U2"},
   targetType : {Undefined},
   targetId : {Undefined, "T1"},
   time : TimeFilters(t),
   pageNum : {0},
   pageSize : {0}]
PageEvents ==
  [code : {ReadCode},
   user : {"U1", adminPubkey},
   anonymousId : {"a1"},
   userFilter : {Undefined},
   targetType : {Undefined},
   targetId : {Undefined},
   time : {NoTime},
   pageNum : {0, 1, 2, 3},
   pageSize : {0, 1, 2}]
WrongCode ==
  [code : {ReportCode},
   user : {"U1"},
   anonymousId : {"a1"},
   userFilter : {Undefined},
   targetType : {Undefined},
   targetId : {Undefined},
   time : {NoTime},
   pageNum : {0},
   pageSize : {0}]
ReadEvents(t) == FilterEvents(t) \cup PageEvents \cup WrongCode

\* Reports that name the type of their target, and reads with every
\* combination of the common filters by a user and by the administrator
Typed(user, anonymousId, targetType, targetId) ==
  [code |-> ReportCode,
   created_at |-> 0,
   viewer |-> [user |-> user, anonymousId |-> anonymousId],
   targetType |-> targetType,
   targetId |-> targetId,
   ipAddress |-> Undefined]
TypedEvents ==
  {Typed("U1", "a1", "post", "T1"),
   Typed("U1", "a1", "video", "T2"),
   Typed(Undefined, "a2", "post", "T2")}
CommonFilterEvents(t) ==
  [code : {ReadCode},
   user : {"U1", adminPubkey},
   anonymousId : {Undefined},
   userFilter : {Undefined},
   targetType : {Undefined, "post"},
   targetId : {Undefined, "T2"},
   time : {NoTime,
           [startTime |-> StartTime + 1, endTime |-> 0],
           [startTime |-> 0, endTime |-> StartTime],
           [startTime |-> StartTime + 1, endTime |-> t]},
   pageNum : {0},
   pageSize : {0}]

\* Reports and reads for the interleavings: one anonymous client and one
\* target, with a wrong code, without a timestamp, and with a timestamp at
\* and just past the tolerance; the administrator's reads of every page
LedgerEvents(t) ==
  [code : {ReportCode, ReadCode},
   created_at : {0, t - SkewTolerance, t - SkewTolerance - 1},
   viewer : {[user |-> Undefined, anonymousId |-> "a1"]},
   targetId : {"T1"},
   ipAddress : {Undefined}]
LedgerReads ==
  [code : {ReadCode},
   user : {adminPubkey},
   anonymousId : {Undefined},
   userFilter : {Undefined},
   targetType : {Undefined},
   targetId : {Undefined},
   time : {NoTime},
   pageNum : {0, 1, 2},
   pageSize : {0, 1}]
  \cup WrongCode

\* Counts: one target, with and without records, no target at all, and lists
\* of targets with a repeated and an unknown one
One(id) == [array |-> FALSE, id |-> id]
Many(ids) == [array |-> TRUE, ids |-> ids]
CountEvents ==
  [code : {CountCode},
   targetId : {One("T1"), One("T2"), One("T3"), One(Undefined),
               Many(<<"T1", "T2", "T3">>), Many(<<"T2", "T2">>), Many(<<>>)}]
  \cup [code : {ReadCode}, targetId : {One("T1")}]
LedgerCounts ==
  [code : {CountCode}, targetId : {One("T1"), Many(<<"T1", "T2">>)}]
  \cup [code : {ReadCode}, targetId : {One("T1")}]

\* Frames of a connection: text that is not JSON, JSON without a third
\* element, and commands with every ops letter and code, with and without
\* user and data.  A code of 0 stands for an absent code.
Commands ==
  [ops : {Undefined, "C", "R", "U", "D", "X"},
   code : {0, 100, 101, 102, 103, 150, 200, 201, 202, 203, 250, 700, 703, 704},
   user : {Undefined, "U1"},
   data : {Undefined, "data"}]
Frames ==
  {[json |-> "malformed"], [json |-> "null"], [json |-> "short"]}
  \cup {[json |-> "array", event |-> e] : e \in Commands}

\* Reports of one viewer with every kind of code, timestamp and target, for
\* the validation
Offsets == {-(SkewTolerance + 1), -SkewTolerance, 0, SkewTolerance, SkewTolerance + 1}
CreatedAts(t) == {0, InvalidDate} \cup {t + o : o \in Offsets}
ValidationEvents(t) ==
  [code : {ReportCode, ReadCode},
   created_at : CreatedAts(t),
   viewer : {[user |-> "U1", anonymousId |-> "a1"]},
   targetId : {Undefined, "", "T1"},
   ipAddress : {Undefined}]

(* ---------------- reportBrowseLog ---------------- *)
\* lines 39-40
ClientTime(ev, t) == IF ev.created_at # 0 THEN ev.created_at ELSE t
TimeDiff(ev, t) ==
  IF ClientTime(ev, t) = InvalidDate THEN NaN ELSE Abs(t - ClientTime(ev, t))

\* >= for > at line 41
Validate_SkewInclusive(ev, t) ==
  IF ev.code # ReportCode THEN "badcode"
  ELSE IF TimeDiff(ev, t) # NaN /\ TimeDiff(ev, t) >= SkewTolerance THEN "skew"
  ELSE IF ~Truthy(ev.targetId) THEN "notarget"
  ELSE "ok"

\* `targetId === undefined` for `!targetId` at line 46
Validate_UndefinedOnly(ev, t) ==
  IF ev.code # ReportCode THEN "badcode"
  ELSE IF TimeDiff(ev, t) # NaN /\ TimeDiff(ev, t) > SkewTolerance THEN "skew"
  ELSE IF ev.targetId = Undefined THEN "notarget"
  ELSE "ok"

\* the target checked before the timestamp
Validate_TargetFirst(ev, t) ==
  IF ev.code # ReportCode THEN "badcode"
  ELSE IF ~Truthy(ev.targetId) THEN "notarget"
  ELSE IF TimeDiff(ev, t) # NaN /\ TimeDiff(ev, t) > SkewTolerance THEN "skew"
  ELSE "ok"

\* lines 34-48: the first failing check decides
Validate(ev, t) ==
  IF ev.code # ReportCode THEN "badcode"
  ELSE IF TimeDiff(ev, t) # NaN /\ TimeDiff(ev, t) > SkewTolerance THEN "skew"
  ELSE IF ~Truthy(ev.targetId) THEN "notarget"
  ELSE "ok"

Rejection(v) ==
  [code |-> IF v = "skew" THEN 500 ELSE 400, message |-> v]

\* the interval not subtracted at line 52
DuplicateQuery_NoWindow(ev, t) ==
  [targetId |-> ev.targetId,
   gte |-> t,
   user |-> IF Truthy(ev.viewer.user) THEN ev.viewer.user ELSE Undefined]

\* lines 52-62
DuplicateQuery(ev, t) ==
  [targetId |-> ev.targetId,
   gte |-> t - duplicateInterval,
   user |-> IF Truthy(ev.viewer.user) THEN ev.viewer.user ELSE Undefined]

\* $gt for $gte at line 56
MatchesDuplicate_Strict(r, q) ==
  /\ r.targetId = q.targetId
  /\ r.createdAt > q.gte
  /\ (q.user # Undefined => r.user = q.user)

\* what the query of line 65 matches
MatchesDuplicate(r, q) ==
  /\ r.targetId = q.targetId
  /\ r.createdAt >= q.gte
  /\ (q.user # Undefined => r.user = q.user)

\* line 65: the documents findOne may return
Existing(recs, ev, t) ==
  {i \in 1..Len(recs) : MatchesDuplicate(recs[i], DuplicateQuery(ev, t))}

\* lines 66-75
AlreadyRecorded(r) ==
  [code |-> 200, message |-> "duplicate",
   data |-> [browseId |-> r._id, lastBrowseTime |-> r.createdAt]]

\* createdAt taken from the client's created_at
BrowseRecord_ClientTime(ev, id, t) ==
  [_id |-> id,
   user |-> OrElse(ev.viewer.user, Null),
   anonymousId |-> ev.viewer.anonymousId,
   targetId |-> ev.targetId,
   ipAddress |-> OrElse(ev.ipAddress, ""),
   createdAt |-> ClientTime(ev, t),
   updatedAt |-> ClientTime(ev, t)]

\* lines 78-85, with the _id insertOne assigns
BrowseRecord(ev, id, t) ==
  [_id |-> id,
   user |-> OrElse(ev.viewer.user, Null),
   anonymousId |-> ev.viewer.anonymousId,
   targetId |-> ev.targetId,
   ipAddress |-> OrElse(ev.ipAddress, ""),
   createdAt |-> t,
   updatedAt |-> t]

\* lines 90-97
Reported(r) ==
  [code |-> 200, message |-> "inserted",
   data |-> [browseId |-> r._id, browseTime |-> r.createdAt]]

Done(op, ev, res) == [op |-> op, ev |-> ev, res |-> res]

Handlers == {"h1", "h2"}
Idle == [pc |-> "idle"]
AllIdle == \A h \in Handlers : pend[h] = Idle

AwaitDelays == {0, 1}

\* the duplicate branch refreshes the record it found
reportBrowseLog_Touch(ev) ==
  /\ AllIdle
  /\ LET v == Validate(ev, now)
         found == Existing(records, ev, now)
     IN IF v # "ok"
        THEN /\ last' = Done("report", ev, Rejection(v))
             /\ UNCHANGED <<now, records>>
        ELSE IF found # {}
        THEN /\ \E i \in found :
                  /\ last' = Done("report", ev, AlreadyRecorded(records[i]))
                  /\ records' = [records EXCEPT ![i].createdAt = now,
                                                ![i].updatedAt = now]
             /\ UNCHANGED now
        ELSE /\ Len(records) < MaxRecords
             /\ \E d \in AwaitDelays :
                  /\ InBounds(now + d)
                  /\ now' = now + d
                  /\ LET r == BrowseRecord(ev, Len(records) + 1, now + d)
                     IN /\ records' = Append(records, r)
                        /\ last' = Done("report", ev, Reported(r))
  /\ UNCHANGED <<pend, server>>

\* The whole handler (lines 29-98), run without another handler in between.
\* The clock may move while findOne is awaited (line 65), before new Date()
\* at line 83.
reportBrowseLog(ev) ==
  /\ AllIdle
  /\ LET v == Validate(ev, now)
         found == Existing(records, ev, now)
     IN IF v # "ok"
        THEN /\ last' = Done("report", ev, Rejection(v))
             /\ UNCHANGED <<now, records>>
        ELSE IF found # {}
        THEN /\ \E i \in found :
                  last' = Done("report", ev, AlreadyRecorded(records[i]))
             /\ UNCHANGED <<now, records>>
        ELSE /\ Len(records) < MaxRecords
             /\ \E d \in AwaitDelays :
                  /\ InBounds(now + d)
                  /\ now' = now + d
                  /\ LET r == BrowseRecord(ev, Len(records) + 1, now + d)
                     IN /\ records' = Append(records, r)
                        /\ last' = Done("report", ev, Reported(r))
  /\ UNCHANGED <<pend, server>>

Report == \E ev \in ReportEvents : reportBrowseLog(ev)

ReportAny == \E ev \in ValidationEvents(now) : reportBrowseLog(ev)

(* ---------------- readBrowseLogs ---------------- *)
\* MongoDB compares a query value with a stored value after both are
\* serialised: undefined is stored, and sent, as null
Bson(x) == IF x = Undefined THEN Null ELSE x

\* userFilter honoured for every caller
Visible_FilterForAll(r, q) ==
  IF q.user # adminPubkey /\ ~Truthy(q.userFilter)
  THEN \/ Bson(r.user) = Bson(q.user)
       \/ Bson(r.anonymousId) = Bson(q.anonymousId) /\ Bson(r.user) = Null
  ELSE /\ Truthy(q.userFilter) => Bson(r.user) = q.userFilter
       /\ Truthy(q.anonymousId) => Bson(r.anonymousId) = q.anonymousId

\* lines 115-127: who may see the record
Visible(r, q) ==
  IF q.user # adminPubkey
  THEN \/ Bson(r.user) = Bson(q.user)
       \/ Bson(r.anonymousId) = Bson(q.anonymousId) /\ Bson(r.user) = Null
  ELSE /\ Truthy(q.userFilter) => Bson(r.user) = q.userFilter
       /\ Truthy(q.anonymousId) => Bson(r.anonymousId) = q.anonymousId

\* lines 129-137: the filters of every role; a document matches
\* {targetType: x} when it has the field with that value
Filtered(r, q) ==
  /\ Truthy(q.targetType)
       => ("targetType" \in DOMAIN r /\ r.targetType = q.targetType)
  /\ Truthy(q.targetId) => r.targetId = q.targetId
  /\ (q.time.startTime # 0 /\ q.time.endTime # 0)
       => (r.createdAt >= q.time.startTime /\ r.createdAt <= q.time.endTime)

\* the documents find(query) and countDocuments(query) select
Matching(recs, q) ==
  {i \in 1..Len(recs) : Visible(recs[i], q) /\ Filtered(recs[i], q)}

\* lines 140-142; 0 stands for an absent page number or size
PageNum(q) == IF q.pageNum # 0 THEN q.pageNum ELSE 1
DefaultPageSize == 20
PageSize(q) == IF q.pageSize # 0 THEN q.pageSize ELSE DefaultPageSize
\* pages counted from 0
Skip_FromZero(q) == PageNum(q) * PageSize(q)
Skip(q) == (PageNum(q) - 1) * PageSize(q)

\* line 147: the orders sort({createdAt: -1}) may produce; records of equal
\* createdAt come in any order
Sorted(recs, S) ==
  {o \in [1..Cardinality(S) -> S] :
     /\ \A i, j \in 1..Cardinality(S) : i # j => o[i] # o[j]
     /\ \A i, j \in 1..Cardinality(S) :
          i < j => recs[o[i]].createdAt >= recs[o[j]].createdAt}

Min(a, b) == IF a < b THEN a ELSE b

\* lines 148-150: skip and limit
Page(o, q) == SubSeq(o, Skip(q) + 1, Min(Len(o), Skip(q) + PageSize(q)))

\* the owner of a record is shown its IP address
Format_OwnerSeesIp(r, q) ==
  [_id |-> r._id,
   user |-> r.user,
   anonymousId |-> r.anonymousId,
   targetId |-> r.targetId,
   createdAt |-> r.createdAt,
   updatedAt |-> r.updatedAt,
   ipAddress |-> IF q.user = adminPubkey \/ q.user = r.user
                 THEN r.ipAddress ELSE MaskedIp]

\* lines 153-162
Format(r, q) ==
  [_id |-> r._id,
   user |-> r.user,
   anonymousId |-> r.anonymousId,
   targetId |-> r.targetId,
   createdAt |-> r.createdAt,
   updatedAt |-> r.updatedAt,
   ipAddress |-> IF q.user = adminPubkey THEN r.ipAddress ELSE MaskedIp]

\* lines 145-162: the page of find, formatted
PageList(recs, o, q) ==
  [k \in 1..Len(Page(o, q)) |-> Format(recs[Page(o, q)[k]], q)]

\* the count limited to one page
Total_Limited(recs, q) == Min(Cardinality(Matching(recs, q)), PageSize(q))

\* line 171: countDocuments(query)
Total(recs, q) == Cardinality(Matching(recs, q))

\* lines 164-173
ReadAnswer(list, total, q) ==
  [code |-> 200, message |-> "read",
   data |-> [list |-> list,
             pageNum |-> PageNum(q),
             pageSize |-> PageSize(q),
             total |-> total]]

ReadResult(recs, o, q) == ReadAnswer(PageList(recs, o, q), Total(recs, q), q)

\* a completed read, with the number of documents the collection held then
ReadDone(q, res, n) == [op |-> "read", ev |-> q, res |-> res, seen |-> n]

\* The whole handler (lines 105-174), run without another handler in between
readBrowseLogs(q) ==
  /\ AllIdle
  /\ IF q.code # ReadCode
     THEN last' = ReadDone(q, [code |-> 400, message |-> "badcode"], Len(records))
     ELSE \E o \in Sorted(records, Matching(records, q)) :
            last' = ReadDone(q, ReadResult(records, o, q), Len(records))
  /\ UNCHANGED <<now, records, pend, server>>

ReportView == \E ev \in ViewEvents : reportBrowseLog(ev)

Read == \E q \in ReadEvents(now) : readBrowseLogs(q)

ReportTyped == \E ev \in TypedEvents : reportBrowseLog(ev)

ReadFiltered == \E q \in CommonFilterEvents(now) : readBrowseLogs(q)

(* ---------------- countBrowseLogs ---------------- *)
\* line 221: countDocuments({targetId}), with no condition on createdAt
CountOf(recs, id) ==
  Cardinality({i \in 1..Len(recs) : Bson(recs[i].targetId) = Bson(id)})

\* only the first id of the list matched
Groups_FirstOnly(recs, ids) ==
  {[targetId |-> t, count |-> CountOf(recs, t)] :
     t \in {recs[i].targetId : i \in 1..Len(recs)}
           \cap {ids[k] : k \in 1..Min(1, Len(ids))}}

\* lines 194-213: $match targetId $in ids, $group by targetId with $sum 1,
\* $project to {targetId, count}: one group for each id that has documents
Groups(recs, ids) ==
  {[targetId |-> t, count |-> CountOf(recs, t)] :
     t \in {recs[i].targetId : i \in 1..Len(recs)}
           \cap {ids[k] : k \in 1..Len(ids)}}

\* line 215: toArray() gives the groups in an order MongoDB chooses
Orders(S) ==
  {o \in [1..Cardinality(S) -> S] :
     \A i, j \in 1..Cardinality(S) : i # j => o[i] # o[j]}

\* a completed count, with the number of documents the collection held then
CountDone(ev, res, n) == [op |-> "count", ev |-> ev, res |-> res, seen |-> n]

\* The whole handler (lines 181-231); it makes one storage call
countBrowseLogs(ev) ==
  /\ IF ev.code # CountCode
     THEN last' = CountDone(ev, [code |-> 400, message |-> "badcode"], Len(records))
     ELSE IF ev.targetId.array
     THEN \E o \in Orders(Groups(records, ev.targetId.ids)) :
            last' = CountDone(ev, [code |-> 200, message |-> "counted", counts |-> o],
                              Len(records))
     ELSE last' = CountDone(ev, [code |-> 200, message |-> "counted",
                                 counts |-> CountOf(records, ev.targetId.id)],
                            Len(records))
  /\ UNCHANGED <<now, records, pend, server>>

Count == \E ev \in CountEvents : countBrowseLogs(ev)

(* ---------------- WebSocketServer ---------------- *)
\* lines 63-141 of src/unnamed/part_000: the handler the switch calls, or the
\* error it throws before calling one; neither when no branch takes the code
Dispatch(e) ==
  IF e.ops = "C"
  THEN IF e.code = 100
       THEN IF e.data = Undefined
            THEN [handler |-> "none", error |-> "TypeError"]
            ELSE [handler |-> "createUser", error |-> "none"]
       ELSE IF e.code = 200
       THEN [handler |-> "createEvent", error |-> "none"]
       ELSE [handler |-> "none", error |-> "none"]
  ELSE IF e.ops = "R"
  THEN IF e.code = 103
       THEN [handler |-> "getUserByPubkey", error |-> "none"]
       ELSE IF e.code = 203
       THEN [handler |-> "readEvents", error |-> "none"]
       ELSE [handler |-> "none", error |-> "none"]
  ELSE IF e.ops = "U"
  THEN IF e.code = 101
       THEN [handler |-> "updateUser", error |-> "none"]
       ELSE IF e.code = 201
       THEN [handler |-> "none", error |-> "NotImplemented"]
       ELSE [handler |-> "none", error |-> "none"]
  ELSE IF e.ops = "D"
  THEN IF e.code = 102
       THEN [handler |-> "deleteUser", error |-> "none"]
       ELSE IF e.code = 202
       THEN [handler |-> "none", error |-> "NotImplemented"]
       ELSE [handler |-> "none", error |-> "none"]
  ELSE [handler |-> "none", error |-> "UnknownOps"]

\* lines 53-58, then the switch
Handle(m) ==
  IF m.json = "malformed" THEN [handler |-> "none", error |-> "SyntaxError"]
  ELSE IF m.json \in {"null", "short"}
  THEN [handler |-> "none", error |-> "TypeError"]
  ELSE IF ~Truthy(m.event.ops) \/ m.event.code = 0 \/ ~Truthy(m.event.user)
  THEN [handler |-> "none", error |-> "InvalidFormat"]
  ELSE Dispatch(m.event)

\* what the awaited handler does: it returns, or its storage call fails
Outcomes == {"none", "HandlerFailure"}

\* an error that leaves handleMessage: an unhandled rejection ends the process
Caught_Unhandled(sv) ==
  [sv EXCEPT !.state = "exited", !.attached = FALSE, !.failed = TRUE]

\* lines 145-149: the error is logged; `failed` remembers that a command of
\* this connection has failed
Caught(sv) == [sv EXCEPT !.failed = TRUE]

MessageDone(m, handler, error) ==
  [op |-> "message", ev |-> m, handler |-> handler, error |-> error]

\* lines 18-33
start ==
  /\ server.state = "constructed"
  /\ \/ server' = [server EXCEPT !.state = "running"]
     \/ server' = [server EXCEPT !.state = "exited"]
  /\ UNCHANGED <<now, records, last, pend>>

\* lines 36-47
handleConnection ==
  /\ server.state = "running"
  /\ ~server.attached
  /\ server' = [server EXCEPT !.attached = TRUE]
  /\ UNCHANGED <<now, records, last, pend>>

\* lines 50-150
handleMessage(m) ==
  /\ server.state = "running"
  /\ server.attached
  /\ LET h == Handle(m)
     IN IF h.handler = "none"
        THEN /\ last' = MessageDone(m, "none", h.error)
             /\ server' = IF h.error = "none" THEN server ELSE Caught(server)
        ELSE \E out \in Outcomes :
               /\ last' = MessageDone(m, h.handler, out)
               /\ server' = IF out = "none" THEN server ELSE Caught(server)
  /\ UNCHANGED <<now, records, pend>>

Message == \E m \in Frames : handleMessage(m)

(* ---------------- two handlers in flight ---------------- *)
\* lines 29-75 of one handler: validation and findOne
findDuplicate(h, ev) ==
  /\ pend[h] = Idle
  /\ LET v == Validate(ev, now)
         found == Existing(records, ev, now)
     IN IF v # "ok"
        THEN /\ last' = Done("report", ev, Rejection(v))
             /\ UNCHANGED pend
        ELSE IF found # {}
        THEN /\ \E i \in found :
                  last' = Done("report", ev, AlreadyRecorded(records[i]))
             /\ UNCHANGED pend
        ELSE /\ pend' = [pend EXCEPT ![h] = [pc |-> "insert", ev |-> ev]]
             /\ UNCHANGED last
  /\ UNCHANGED <<now, records, server>>

\* an insert that looks at the ledger again and gives way to a duplicate
insertRecord_Recheck(h) ==
  /\ pend[h].pc = "insert"
  /\ LET found == Existing(records, pend[h].ev, now)
     IN IF found # {}
        THEN /\ \E i \in found :
                  last' = Done("report", pend[h].ev, AlreadyRecorded(records[i]))
             /\ UNCHANGED records
        ELSE /\ Len(records) < MaxRecords
             /\ LET r == BrowseRecord(pend[h].ev, Len(records) + 1, now)
                IN /\ records' = Append(records, r)
                   /\ last' = Done("report", pend[h].ev, Reported(r))
  /\ pend' = [pend EXCEPT ![h] = Idle]
  /\ UNCHANGED <<now, server>>

\* lines 77-97 of that handler: insertOne, whatever the ledger holds by now
insertRecord(h) ==
  /\ pend[h].pc = "insert"
  /\ Len(records) < MaxRecords
  /\ LET r == BrowseRecord(pend[h].ev, Len(records) + 1, now)
     IN /\ records' = Append(records, r)
        /\ last' = Done("report", pend[h].ev, Reported(r))
  /\ pend' = [pend EXCEPT ![h] = Idle]
  /\ UNCHANGED <<now, server>>

Check == \E h \in Handlers, ev \in RaceEvents : findDuplicate(h, ev)

CheckAny == \E h \in Handlers, ev \in LedgerEvents(now) : findDuplicate(h, ev)

\* lines 105-162 of one read: the code check, the query and find
findPage(h, q) ==
  /\ pend[h] = Idle
  /\ IF q.code # ReadCode
     THEN /\ last' = ReadDone(q, [code |-> 400, message |-> "badcode"],
                              Len(records))
          /\ UNCHANGED pend
     ELSE /\ \E o \in Sorted(records, Matching(records, q)) :
               pend' = [pend EXCEPT ![h] =
                          [pc |-> "total", ev |-> q,
                           list |-> PageList(records, o, q),
                           seen |-> Len(records)]]
          /\ UNCHANGED last
  /\ UNCHANGED <<now, records, server>>

\* lines 164-173 of that read: countDocuments on the ledger as it is by now
countTotal(h) ==
  /\ pend[h].pc = "total"
  /\ last' = ReadDone(pend[h].ev,
                      ReadAnswer(pend[h].list, Total(records, pend[h].ev),
                                 pend[h].ev),
                      pend[h].seen)
  /\ pend' = [pend EXCEPT ![h] = Idle]
  /\ UNCHANGED <<now, records, server>>

Find == \E h \in Handlers, q \in LedgerReads : findPage(h, q)

CountTotal == \E h \in Handlers : countTotal(h)

CountAny == \E ev \in LedgerCounts : countBrowseLogs(ev)

Insert == \E h \in Handlers : insertRecord(h)

(* ---------------- the clock ---------------- *)
\* a millisecond passes
Tick ==
  /\ InBounds(now + 1)
  /\ now' = now + 1
  /\ UNCHANGED <<records, last, pend, server>>

\* a whole deduplication interval passes
Elapse ==
  /\ InBounds(now + duplicateInterval)
  /\ now' = now + duplicateInterval
  /\ UNCHANGED <<records, last, pend, server>>

(* ---------------- specifications ---------------- *)
Init ==
  /\ now = StartTime
  /\ records = <<>>
  /\ last = [op |-> "none"]
  /\ pend = [h \in Handlers |-> Idle]
  /\ server = [state |-> "constructed", attached |-> FALSE, failed |-> FALSE]

\* handlers one after the other
Next == Tick \/ Elapse \/ Report

Spec == Init /\ [][Next]_vars

\* handlers one after the other, every kind of report of one viewer
NextValidate == Tick \/ Elapse \/ ReportAny

SpecValidate == Init /\ [][NextValidate]_vars

\* two handlers whose storage calls interleave
NextRace == Tick \/ Elapse \/ Check \/ Insert

SpecRace == Init /\ [][NextRace]_vars

\* reports and reads, handlers one after the other
NextRead == Tick \/ ReportView \/ Read

SpecRead == Init /\ [][NextRead]_vars

\* reports and counts, handlers one after the other
NextCount == Tick \/ Elapse \/ ReportView \/ Count

SpecCount == Init /\ [][NextCount]_vars

\* reports that name a target type, and reads with the common filters
NextFilter == Tick \/ ReportTyped \/ ReadFiltered

SpecFilter == Init /\ [][NextFilter]_vars

\* reports, reads and counts in flight together
NextLedger == Tick \/ CheckAny \/ Insert \/ Find \/ CountTotal \/ CountAny

SpecLedger == Init /\ [][NextLedger]_vars

\* one connection of the command router
NextRouter == start \/ handleConnection \/ Message

SpecRouter == Init /\ [][NextRouter]_vars

(* ---------------- vocabulary of the properties ---------------- *)
\* the dedup key: the user when present, else the anonymous id
EventKey(ev) ==
  IF Truthy(ev.viewer.user) THEN <<"user", ev.viewer.user>>
  ELSE <<"anon", ev.viewer.anonymousId>>
RecordKey(r) ==
  IF r.user # Null THEN <<"user", r.user>> ELSE <<"anon", r.anonymousId>>

\* a report completed in this step
ReportStep == last' # last /\ last'.op = "report"

\* this step inserted exactly the record of the report that completed
InsertedStep ==
  /\ last'.res.message = "inserted"
  /\ Len(records') = Len(records) + 1
  /\ SubSeq(records', 1, Len(records)) = records
  /\ LET r == records'[Len(records')]
     IN /\ RecordKey(r) = EventKey(last'.ev)
        /\ r.targetId = last'.ev.targetId
        /\ last'.res.data.browseId = r._id

\* the report names its viewer: a user, or an anonymous id
HasKey(ev) == Truthy(ev.viewer.user) \/ Truthy(ev.viewer.anonymousId)

\* the records of the report's key and target
KeyRecords(recs, ev) ==
  {i \in 1..Len(recs) :
     recs[i].targetId = ev.targetId /\ RecordKey(recs[i]) = EventKey(ev)}

(* ---------------- properties ---------------- *)
\* C1: with handlers run one after the other, no two records of the same
\* target and the same dedup key have createdAt less than the dedup interval
\* apart.
C1_OnePerWindow ==
  \A i, j \in 1..Len(records) :
    (i < j /\ records[i].targetId = records[j].targetId
           /\ RecordKey(records[i]) = RecordKey(records[j]))
    => Abs(records[j].createdAt - records[i].createdAt) >= duplicateInterval

\* two records of one key and one target, the second after the window
C1_Witness ==
  \E i, j \in 1..Len(records) :
    /\ i < j
    /\ records[i].targetId = records[j].targetId
    /\ RecordKey(records[i]) = RecordKey(records[j])

\* C2: a report that inserted a record, followed with no other operation in
\* between by a report of the same target and dedup key within the window,
\* leaves the ledger as it is, and the second result carries the id and the
\* createdAt of the record the first one inserted.
C2_SecondReportIsNoOp ==
  [][(/\ last.op = "report"
      /\ last.res.message = "inserted"
      /\ ReportStep
      /\ Validate(last'.ev, now) = "ok"
      /\ EventKey(last'.ev) = EventKey(last.ev)
      /\ last'.ev.targetId = last.ev.targetId
      /\ now - last.res.data.browseTime <= duplicateInterval)
     => (/\ records' = records
         /\ last'.res.code = 200
         /\ last'.res.message = "duplicate"
         /\ last'.res.data.browseId = last.res.data.browseId
         /\ last'.res.data.lastBrowseTime = last.res.data.browseTime)]_vars

\* the second of two reports of one key answered with the first one's record
C2_Witness ==
  /\ last.op = "report"
  /\ last.res.message = "duplicate"
  /\ last.res.data.browseId = Len(records)
  /\ RecordKey(records[Len(records)]) = EventKey(last.ev)
  /\ records[Len(records)].targetId = last.ev.targetId
  /\ last.res.data.lastBrowseTime = records[Len(records)].createdAt

\* C3: a valid report made after the window has elapsed since the last record
\* of its key for its target inserts a new record, whatever other viewers
\* have reported for that target.
C3_ExpiredKeyRecordsAgain ==
  [][(/\ ReportStep
      /\ Validate(last'.ev, now) = "ok"
      /\ HasKey(last'.ev)
      /\ KeyRecords(records, last'.ev) # {}
      /\ \A i \in KeyRecords(records, last'.ev) :
           records[i].createdAt < now - duplicateInterval)
     => InsertedStep]_vars

\* C4: a valid report without a user is inserted whenever no record of the
\* same target inside the window has a null user and the report's
\* anonymousId.
C4_AnonymousMatchesOwnOnly ==
  [][(/\ ReportStep
      /\ Validate(last'.ev, now) = "ok"
      /\ ~Truthy(last'.ev.viewer.user)
      /\ Truthy(last'.ev.viewer.anonymousId)
      /\ ~\E i \in 1..Len(records) :
            /\ records[i].targetId = last'.ev.targetId
            /\ records[i].createdAt >= now - duplicateInterval
            /\ records[i].user = Null
            /\ records[i].anonymousId = last'.ev.viewer.anonymousId)
     => InsertedStep]_vars

\* C5: a handler that passed the duplicate check inserts its record even when
\* the other handler has, since that check, inserted a record of the same
\* target and key inside the window; two such records are then in the ledger.
C5_InsertAfterStaleCheck ==
  [][\A h \in Handlers :
       (/\ pend[h].pc = "insert"
        /\ pend'[h] = Idle
        /\ \E i \in KeyRecords(records, pend[h].ev) :
             records[i].createdAt >= now - duplicateInterval)
       => records' = Append(records,
                            BrowseRecord(pend[h].ev, Len(records) + 1, now))]_vars

\* two records of one key and one target inside one window
C5_Witness ==
  \E i, j \in 1..Len(records) :
    /\ i < j
    /\ records[i].targetId = records[j].targetId
    /\ RecordKey(records[i]) = RecordKey(records[j])
    /\ records[j].createdAt - records[i].createdAt < duplicateInterval

\* C6: a read by a caller who is not the administrator returns only records
\* whose user is the caller, or whose user is null and whose anonymousId is
\* the caller's, whatever filters the caller sent; a read by the
\* administrator with a userFilter returns only records of that user.
C6_VisibilityIsolation ==
  (last.op = "read" /\ last.res.code = 200)
  => LET q == last.ev
         list == last.res.data.list
     IN IF q.user # adminPubkey
        THEN \A k \in 1..Len(list) :
               \/ list[k].user = q.user
               \/ list[k].user = Null /\ list[k].anonymousId = q.anonymousId
        ELSE q.userFilter # Undefined
               => \A k \in 1..Len(list) : list[k].user = q.userFilter

\* U1 asks for U2's records, which exist, and is shown records of its own
C6_Witness ==
  /\ last.op = "read"
  /\ last.res.code = 200
  /\ last.ev.user = "U1"
  /\ last.ev.userFilter = "U2"
  /\ Len(last.res.data.list) > 0
  /\ \E i \in 1..Len(records) : records[i].user = "U2"

\* C7: every record a read returns carries the masked placeholder as
\* ipAddress when the caller is not the administrator, and the stored
\* ipAddress of that record when the caller is the administrator.
C7_IpMasking ==
  (last.op = "read" /\ last.res.code = 200)
  => \A k \in 1..Len(last.res.data.list) :
       LET shown == last.res.data.list[k]
       IN shown.ipAddress = IF last.ev.user = adminPubkey
                            THEN records[shown._id].ipAddress
                            ELSE "******"

\* a user is shown its own record, stored with an IP address, masked
C7_Witness ==
  /\ last.op = "read"
  /\ last.res.code = 200
  /\ last.ev.user = "U1"
  /\ \E k \in 1..Len(last.res.data.list) :
       /\ records[last.res.data.list[k]._id].ipAddress = "10.0.0.1"
       /\ records[last.res.data.list[k]._id].user = "U1"
       /\ last.res.data.list[k].ipAddress = "******"

\* C10: for a read whose query matches N records, with page size s (20 when
\* absent) and page number k (1 when absent), the list holds the records at
\* positions (k-1)*s+1 .. min(k*s, N) of the matching records in descending
\* order of createdAt, never more than s, and total is N.
C10_Pagination ==
  (last.op = "read" /\ last.res.code = 200)
  => LET q == last.ev
         list == last.res.data.list
         recs == SubSeq(records, 1, last.seen)
         M == Matching(recs, q)
         N == Cardinality(M)
         s == IF q.pageSize # 0 THEN q.pageSize ELSE 20
         k == IF q.pageNum # 0 THEN q.pageNum ELSE 1
         from == (k - 1) * s + 1
         to == IF k * s < N THEN k * s ELSE N
     IN /\ last.res.data.total = N
        /\ Len(list) = (IF to >= from THEN to - from + 1 ELSE 0)
        /\ Len(list) <= s
        /\ \A j \in 1..Len(list) :
             /\ list[j]._id \in M
             /\ list[j].createdAt = recs[list[j]._id].createdAt
             \* list[j] can stand at position from+j-1 of the order
             /\ Cardinality({i \in M : recs[i].createdAt > list[j].createdAt})
                  <= from + j - 2
             /\ Cardinality({i \in M : recs[i].createdAt >= list[j].createdAt})
                  >= from + j - 1
        /\ \A i, j \in 1..Len(list) :
             i < j => /\ list[i]._id # list[j]._id
                      /\ list[i].createdAt >= list[j].createdAt

\* the second page of size 1 of two matching records holds one record
C10_Witness ==
  /\ last.op = "read"
  /\ last.res.code = 200
  /\ last.ev.pageNum = 2
  /\ last.ev.pageSize = 1
  /\ last.res.data.total = 2
  /\ Len(last.res.data.list) = 1

\* C8: a report with the report code whose created_at is more than 5 minutes
\* away from the server clock, in either direction, gets code 500 and leaves
\* the ledger as it is; one at most 5 minutes away is not rejected for skew.
C8_ClockSkew ==
  [][(/\ ReportStep
      /\ last'.ev.code = ReportCode
      /\ last'.ev.created_at \notin {0, InvalidDate})
     => IF Abs(now - last'.ev.created_at) > SkewTolerance
        THEN last'.res.code = 500 /\ records' = records
        ELSE last'.res.code # 500 /\ last'.res.message # "skew"]_vars

\* a report, otherwise valid, rejected for its timestamp
C8_Witness ==
  /\ last.op = "report"
  /\ last.ev.code = ReportCode
  /\ Truthy(last.ev.targetId)
  /\ last.ev.created_at \notin {0, InvalidDate}
  /\ last.res.code = 500

\* C9: a report with the report code and an acceptable timestamp whose
\* targetId is absent or empty gets code 400 and leaves the ledger as it is.
C9_MissingTarget ==
  [][(/\ ReportStep
      /\ last'.ev.code = ReportCode
      /\ \/ last'.ev.created_at = 0
         \/ /\ last'.ev.created_at # InvalidDate
            /\ Abs(now - last'.ev.created_at) <= SkewTolerance
      /\ last'.ev.targetId \in {Undefined, ""})
     => last'.res.code = 400 /\ records' = records]_vars

\* a report with an empty targetId, rejected
C9_Witness ==
  /\ last.op = "report"
  /\ last.ev.code = ReportCode
  /\ last.ev.targetId = ""
  /\ last.res.code = 400
  /\ last.res.message = "notarget"

\* the entries of a count over a list of target ids
BatchedCount ==
  (last.op = "count" /\ last.res.code = 200 /\ last.ev.targetId.array)
  => LET recs == SubSeq(records, 1, last.seen)
         ids == {last.ev.targetId.ids[k] : k \in 1..Len(last.ev.targetId.ids)}
         counts == last.res.counts
         all(id) == {i \in 1..Len(recs) : recs[i].targetId = id}
     IN /\ \A id \in ids :
             all(id) # {}
             => /\ Cardinality({k \in 1..Len(counts) : counts[k].targetId = id}) = 1
                /\ \A k \in 1..Len(counts) :
                     counts[k].targetId = id
                     => /\ counts[k].count = Cardinality(all(id))
                        /\ counts[k].count = CountOf(recs, id)
        /\ \A k \in 1..Len(counts) :
             /\ counts[k].targetId \in ids
             /\ all(counts[k].targetId) = {} => counts[k].count = 0
        /\ \A j, k \in 1..Len(counts) :
             j # k => counts[j].targetId # counts[k].targetId

\* the number a count of one target returns
SingleCount ==
  (last.op = "count" /\ last.res.code = 200 /\ ~last.ev.targetId.array)
  => last.res.counts =
       Cardinality({i \in 1..last.seen :
                      records[i].targetId = last.ev.targetId.id})

\* C11: a count over a list of target ids returns one entry for each
\* requested id that has records, with the count a single-target count of
\* that id returns, which is the number of all records of that target of any
\* age; it has no entry with count 0 left out of that rule, no entry twice
\* and no entry for an id that was not requested.
C11_Count == BatchedCount /\ SingleCount

\* a count over T1, T2 and T3 that finds two records of one target, one of
\* them older than the dedup interval, and leaves out a target without any
C11_Witness ==
  /\ last.op = "count"
  /\ last.res.code = 200
  /\ last.ev.targetId.array
  /\ Len(last.ev.targetId.ids) = 3
  /\ Len(last.res.counts) = 1
  /\ last.res.counts[1].count = 2
  /\ \E i \in 1..Len(records) : records[i].createdAt < now - duplicateInterval

\* a frame that carries a command with ops, code and user
Enveloped(m) ==
  /\ m.json = "array"
  /\ Truthy(m.event.ops)
  /\ m.event.code # 0
  /\ Truthy(m.event.user)

\* C12: a well-formed command with code 700 reaches the report handler, one
\* with code 703 the read handler and one with code 704 the count handler.
C12_LedgerCommandsDispatched ==
  (last.op = "message" /\ Enveloped(last.ev)
     /\ last.ev.event.ops \in {"C", "R", "U", "D"}
     /\ last.ev.event.code \in {700, 703, 704})
  => last.handler = (IF last.ev.event.code = 700 THEN "reportBrowseLog"
                     ELSE IF last.ev.event.code = 703 THEN "readBrowseLogs"
                     ELSE "countBrowseLogs")

\* the operations the commands name: users 100-103, events 200-203, browse
\* ledger 700, 703, 704
Operations ==
  {<<"C", 100>>, <<"U", 101>>, <<"D", 102>>, <<"R", 103>>,
   <<"C", 200>>, <<"U", 201>>, <<"D", 202>>, <<"R", 203>>}
  \cup ({"C", "R", "U", "D"} \X {700, 703, 704})

\* C13: a command without ops, code or user, or whose (ops, code) names no
\* operation, fails with an error, and no handler is invoked.
C13_InvalidCommandFails ==
  (/\ last.op = "message"
   /\ last.ev.json = "array"
   /\ \/ ~Enveloped(last.ev)
      \/ <<last.ev.event.ops, last.ev.event.code>> \notin Operations)
  => last.error # "none" /\ last.handler = "none"

\* a command was handled in this step
MessageStep == last' # last /\ last'.op = "message"

\* the handlers of the user and event commands
Registered ==
  [c \in {<<"C", 100>>, <<"U", 101>>, <<"D", 102>>, <<"R", 103>>,
          <<"C", 200>>, <<"R", 203>>} |->
     IF c = <<"C", 100>> THEN "createUser"
     ELSE IF c = <<"U", 101>> THEN "updateUser"
     ELSE IF c = <<"D", 102>> THEN "deleteUser"
     ELSE IF c = <<"R", 103>> THEN "getUserByPubkey"
     ELSE IF c = <<"C", 200>> THEN "createEvent"
     ELSE "readEvents"]

\* C14: a command that fails leaves the server running with the message
\* handler of the connection attached, and every well-formed command that
\* comes after a failed one is dispatched to its handler.
C14_ConnectionSurvivesFailure ==
  [][MessageStep
     => /\ last'.error # "none"
           => (server'.state = "running" /\ server'.attached)
        /\ (/\ server.failed
            /\ Enveloped(last'.ev)
            /\ last'.ev.event.data # Undefined
            /\ <<last'.ev.event.ops, last'.ev.event.code>> \in DOMAIN Registered)
           => last'.handler =
                Registered[<<last'.ev.event.ops, last'.ev.event.code>>]]_vars

\* a command dispatched to its handler after an earlier command failed
C14_Witness ==
  /\ last.op = "message"
  /\ server.failed
  /\ server.state = "running"
  /\ server.attached
  /\ last.handler = "createEvent"
  /\ last.error = "none"

\* C15: every record whose user is null carries an anonymousId that is
\* neither undefined nor null.
C15_AnonymousIdPresent ==
  \A i \in 1..Len(records) :
    records[i].user = Null => records[i].anonymousId \notin {Undefined, Null}

\* C16: a duplicate report leaves the ledger as it is, and a valid report of a
\* logged-in user whose records of the target are all older than the dedup
\* interval inserts a new record.
C16_WindowNotExtended ==
  [][/\ (last'.op = "report" /\ last'.res.message = "duplicate")
        => records' = records
     /\ (/\ ReportStep
         /\ Validate(last'.ev, now) = "ok"
         /\ Truthy(last'.ev.viewer.user)
         /\ KeyRecords(records, last'.ev) # {}
         /\ \A i \in KeyRecords(records, last'.ev) :
              records[i].createdAt < now - duplicateInterval)
        => InsertedStep]_vars

\* a logged-in user's report inserted after the window of the user's earlier
\* record of the target has passed
C16_Witness ==
  /\ last.op = "report"
  /\ last.res.message = "inserted"
  /\ Truthy(last.ev.viewer.user)
  /\ \E i \in 1..Len(records) - 1 :
       /\ records[i].user = last.ev.viewer.user
       /\ records[i].targetId = last.ev.targetId
       /\ records[i].createdAt + duplicateInterval < last.res.data.browseTime
       /\ last.res.data.browseId = Len(records)

\* the report's created_at is a time more than the tolerance away from t
Skewed(ev, t) ==
  /\ ev.created_at \notin {0, InvalidDate}
  /\ Abs(t - ev.created_at) > SkewTolerance

\* C17: the first failing check of code, clock skew, target decides: a wrong
\* code gets 400 whatever the timestamp and target are, the right code with a
\* skewed timestamp gets 500 even without a target, a missing target gets its
\* 400 exactly when code and timestamp pass, and the duplicate and the insert
\* both get 200.
C17_ValidationOrder ==
  [][ReportStep
     => /\ last'.ev.code # ReportCode
           => (last'.res.code = 400 /\ last'.res.message = "badcode")
        /\ (last'.ev.code = ReportCode /\ Skewed(last'.ev, now))
           => (last'.res.code = 500 /\ last'.res.message = "skew")
        /\ (/\ last'.ev.code = ReportCode
            /\ ~Skewed(last'.ev, now)
            /\ ~Truthy(last'.ev.targetId))
           <=> (last'.res.code = 400 /\ last'.res.message = "notarget")
        /\ last'.res.message \in {"duplicate", "inserted"}
           => last'.res.code = 200
        /\ (/\ last'.ev.code = ReportCode
            /\ ~Skewed(last'.ev, now)
            /\ Truthy(last'.ev.targetId))
           => last'.res.message \in {"duplicate", "inserted"}]_vars

\* a report with the report code, a skewed timestamp and no target, rejected
\* for the timestamp
C17_Witness ==
  /\ last.op = "report"
  /\ last.ev.code = ReportCode
  /\ last.ev.created_at \notin {0, InvalidDate}
  /\ last.ev.targetId = Undefined
  /\ last.res.code = 500
  /\ last.res.message = "skew"

\* C18: no step changes or removes a record; a read, a count, a rejected
\* report and a duplicate report leave the ledger as it is; a report that is
\* neither rejected nor a duplicate appends exactly one record, whose
\* createdAt and updatedAt are the server's time of the insert.
C18_AppendOnly ==
  [][/\ Len(records') \in {Len(records), Len(records) + 1}
     /\ SubSeq(records', 1, Len(records)) = records
     /\ (/\ last' # last
         /\ \/ last'.op \in {"read", "count"}
            \/ last'.op = "report" /\ last'.res.message # "inserted")
        => records' = records
     /\ records' # records
        => /\ InsertedStep
           /\ records'[Len(records')].createdAt = now'
           /\ records'[Len(records')].updatedAt = now'
           /\ last'.res.data.browseTime = now']_vars

\* a record inserted for a report whose created_at is another time
C18_Witness ==
  /\ last.op = "report"
  /\ last.res.message = "inserted"
  /\ last.ev.created_at # 0
  /\ last.ev.created_at # records[last.res.data.browseId].createdAt
  /\ Len(records) > 1

\* the page of a read lies within the total: the statement as it was made
C19_PageWithinTotal ==
  (last.op = "read" /\ last.res.code = 200)
  => (last.res.data.pageNum - 1) * last.res.data.pageSize
       + Len(last.res.data.list) <= last.res.data.total

\* C19: with find and countDocuments as two steps and reports inserting in
\* between, a read that returns a non-empty list has
\* (pageNum - 1) * pageSize + length(list) <= total, and no list is longer
\* than the total.
C19_NonEmptyPageWithinTotal ==
  (last.op = "read" /\ last.res.code = 200)
  => /\ Len(last.res.data.list) <= last.res.data.total
     /\ Len(last.res.data.list) > 0
        => (last.res.data.pageNum - 1) * last.res.data.pageSize
             + Len(last.res.data.list) <= last.res.data.total

\* a read with a non-empty page whose total counts a record inserted after
\* its find
C19_Witness ==
  /\ last.op = "read"
  /\ last.res.code = 200
  /\ Len(last.res.data.list) > 0
  /\ last.res.data.total > last.seen

\* a read with targetId returns records of that target only
TargetIdFilter ==
  (last.op = "read" /\ last.res.code = 200 /\ Truthy(last.ev.targetId))
  => \A k \in 1..Len(last.res.data.list) :
       last.res.data.list[k].targetId = last.ev.targetId

\* a read with both bounds returns records created between them only, and a
\* read with one bound returns what the read without bounds returns
TimeFilter ==
  (last.op = "read" /\ last.res.code = 200)
  => LET q == last.ev
         list == last.res.data.list
         recs == SubSeq(records, 1, last.seen)
     IN /\ (q.time.startTime # 0 /\ q.time.endTime # 0)
           => \A k \in 1..Len(list) :
                /\ list[k].createdAt >= q.time.startTime
                /\ list[k].createdAt <= q.time.endTime
        /\ (q.time.startTime = 0) # (q.time.endTime = 0)
           => {list[k]._id : k \in 1..Len(list)}
                = {recs[i]._id : i \in Matching(recs, [q EXCEPT !.time = NoTime])}

\* a report of a target with a type inserts a record, and the next
\* operation is the administrator's read of that type with no other filter
TypedReadStep ==
  /\ last.op = "report"
  /\ last.res.message = "inserted"
  /\ Truthy(last.ev.targetType)
  /\ last'.op = "read"
  /\ last'.res.code = 200
  /\ last'.ev.user = adminPubkey
  /\ last'.ev.targetType = last.ev.targetType
  /\ ~Truthy(last'.ev.targetId)
  /\ last'.ev.time = NoTime

\* C20: for every caller a read with targetId returns records of that target
\* only, a read with both time bounds returns records created between them
\* only, a read with one bound is not filtered by time, and a read with
\* targetType returns the records reported with that type.
C20_CommonFilters ==
  [][/\ TargetIdFilter'
     /\ TimeFilter'
     /\ TypedReadStep
        => \E k \in 1..Len(last'.res.data.list) :
             last'.res.data.list[k]._id = last.res.data.browseId]_vars

====
